---- MODULE Spec2Model ----
(***************************************************************************)
(* Gesture interaction demo: the HandTracker session (model load, camera,  *)
(* detection loop, teardown), the gesture classifier with its zoom latch,  *)
(* the shared HandState record, the scene animator (useFrame) and the      *)
(* 100 ms UI poll.                                                         *)
(*                                                                         *)
(* Numbers.  Landmark coordinates, distances and positions are integers in *)
(* thousandths (0.2 is 200).  Comparisons of distances are made on the     *)
(* squares, which is exact; a stored distance is Math.sqrt rounded down to *)
(* a thousandth.  Scales and rotations of the scene are integers in units   *)
(* of 1/(10000 * Fine), fine enough that the lerps (by 0.1 and by 0.05) of *)
(* MaxFrames successive animator frames are exact.                         *)
(***************************************************************************)
EXTENDS Integers, Sequences, FiniteSets, TLC

VARIABLES
    \* ---- HandTracker session (useEffect closure and refs)
    mounted,          \* closure variable `mounted`
    setupPc,          \* where the async chain setupMediaPipe -> startWebcam stands
    status,           \* last string given to onStatusChange (App trackerStatus)
    cameraReady,      \* App isCameraReady
    landmarker,       \* landmarkerRef.current: "null", "open" or "closed" instance
    stream,           \* the MediaStream of getUserMedia: "none", "live", "stopped"
    srcObject,        \* videoRef.current.srcObject holds the stream
    videoRef,         \* videoRef.current is the <video> element (not null)
    hasGetUserMedia,  \* navigator.mediaDevices.getUserMedia exists
    requestRef,       \* requestRef.current: 0 is null, 1 a frame-request id
    rafPending,       \* a requestAnimationFrame(predictWebcam) callback is scheduled
    \* ---- gesture classifier
    isZoomActive,     \* isZoomActiveRef.current, the zoom latch
    handState,        \* handStateRef.current
    result,           \* the detectForVideo result the last completed cycle classified
    \* ---- scene animator
    currentScale,     \* currentScale.current
    currentRotation,  \* currentRotation.current
    groupScale,       \* groupRef.current.scale (uniform)
    groupRotation,    \* groupRef.current.rotation, x and y
    frames,           \* number of animator frames run since the initial state
    \* ---- UI overlay
    activeMode        \* UIOverlay activeMode

sessionVars == <<mounted, setupPc, status, cameraReady, landmarker, stream,
                 srcObject, videoRef, hasGetUserMedia, requestRef, rafPending>>
classifierVars == <<isZoomActive, handState, result>>
animatorVars == <<currentScale, currentRotation, groupScale, groupRotation, frames>>
vars == <<sessionVars, classifierVars, animatorVars, activeMode>>

----------------------------------------------------------------------------
\* Bounds and program constants

MaxFrames == 2

PINCH_THRESHOLD == 50
ZOOM_ACTIVATION_THRESHOLD == 200
OPEN_FINGERS == 3

\* lerpFactor = 0.1 and the tilt factor 0.05, as 1/10 and 1/20.
LerpDen == 10
TiltLerpDen == 20

RECURSIVE Pow(_, _)
Pow(b, k) == IF k = 0 THEN 1 ELSE b * Pow(b, k - 1)

\* One ten-thousandth in the unit of the scene's scales and rotations.
Fine == Pow(TiltLerpDen, MaxFrames)

----------------------------------------------------------------------------
\* Arithmetic

Max(a, b) == IF a > b THEN a ELSE b
Min(a, b) == IF a < b THEN a ELSE b

RECURSIVE SqrtSearch(_, _, _)
SqrtSearch(n, lo, hi) ==
    IF lo >= hi THEN lo
    ELSE LET mid == (lo + hi + 1) \div 2
         IN  IF mid * mid <= n THEN SqrtSearch(n, mid, hi)
             ELSE SqrtSearch(n, lo, mid - 1)

\* Math.sqrt of a square given in millionths, in thousandths, rounded down.
Sqrt(n) == SqrtSearch(n, 0, 2000)

\* The square of Math.hypot(dx, dy).
Hypot2(dx, dy) == dx * dx + dy * dy

----------------------------------------------------------------------------
\* Landmark sets.  A hand is described by its wrist, the number of extended
\* fingers and the offset of the thumb tip from the index tip; Landmarks
\* gives the points the code reads: 0 wrist, 4 thumb tip, 6/10/14/18 finger
\* joints (pips), 8/12/16/20 finger tips.

Pt(x, y, z) == [x |-> x, y |-> y, z |-> z]

FingerX == <<-30, -10, 10, 30>>

Tip(h, k) ==
    IF k <= h.ext THEN Pt(h.w[1] + FingerX[k], h.w[2] - 180, 0)
    ELSE Pt(h.w[1] + FingerX[k], h.w[2] - 50, 0)

Landmarks(h) ==
    [i \in 0..20 |->
        CASE i = 0 -> Pt(h.w[1], h.w[2], 0)
          [] i = 4 -> LET t == Tip(h, 1)
                      IN  Pt(t.x + h.gap[1], t.y + h.gap[2], t.z + h.gap[3])
          [] i \in {8, 12, 16, 20} -> Tip(h, i \div 4 - 1)
          [] i \in {6, 10, 14, 18} ->
                Pt(h.w[1] + FingerX[(i - 2) \div 4], h.w[2] - 100, 0)
          [] OTHER -> Pt(h.w[1], h.w[2], 0)]

Gaps == {<<31, 1, 0>>, <<0, 0, 50>>, <<40, 0, 40>>, <<120, 0, 0>>}

OneHandSpecs == [w : {<<300, 600>>, <<700, 400>>}, ext : {4}, gap : Gaps]

FirstHandSpecs == [w : {<<50, 300>>}, ext : {2, 3}, gap : {<<30, 0, 0>>}]

WristOffsets ==
    {<<101, 1>>, <<200, 0>>, <<300, 400>>, <<700, 0>>, <<800, 0>>, <<900, 0>>}

SecondHandSpecs ==
    [w : {<<50 + o[1], 300 + o[2]>> : o \in WristOffsets},
     ext : {0, 4}, gap : {<<120, 0, 0>>}]

\* result.landmarks of a detection, as the sequence of the hands' descriptions.
NoHandFrames == {<< >>}
OneHandFrames == {<<h>> : h \in OneHandSpecs}
TwoHandFrames == {<<h1, h2>> : h1 \in FirstHandSpecs, h2 \in SecondHandSpecs}
Frames == NoHandFrames \cup OneHandFrames \cup TwoHandFrames

----------------------------------------------------------------------------
\* types.ts

INITIAL_HAND_STATE ==
    [pinchDistance |-> 1000, handDistance |-> 0, isPinched |-> FALSE,
     position |-> [x |-> 0, y |-> 0], isDetected |-> FALSE, mode |-> "IDLE"]

----------------------------------------------------------------------------
\* Gesture classifier (HandTracker)

\* isHandOpen: a finger is extended when its tip is further from the wrist
\* than its joint (2D); the hand is open with 3 or more extended fingers.
FingerExtended(landmarks, k) ==
    LET wrist == landmarks[0]
        tip == landmarks[4 * k + 4]
        pip == landmarks[4 * k + 2]
    IN  Hypot2(tip.x - wrist.x, tip.y - wrist.y)
          > Hypot2(pip.x - wrist.x, pip.y - wrist.y)

IsHandOpen(landmarks) ==
    Cardinality({k \in 1..4 : FingerExtended(landmarks, k)}) >= OPEN_FINGERS

\* The square of the inter-wrist distance `dist` of a two-hand result.
WristDist2(f) ==
    LET h1 == Landmarks(f[1])[0]
        h2 == Landmarks(f[2])[0]
    IN  Hypot2(h1.x - h2.x, h1.y - h2.y)

\* The square of the 3D thumb-tip to index-tip distance of a hand.
PinchDist2(landmarks) ==
    LET thumb == landmarks[4]
        index == landmarks[8]
        dx == thumb.x - index.x
        dy == thumb.y - index.y
        dz == thumb.z - index.z
    IN  dx * dx + dy * dy + dz * dz

\* Mutant of IsPinched: the threshold itself counts as pinched.
IsPinchedInclusive(landmarks) ==
    PinchDist2(landmarks) <= PINCH_THRESHOLD * PINCH_THRESHOLD

\* currentDist < PINCH_THRESHOLD
IsPinched(landmarks) ==
    PinchDist2(landmarks) < PINCH_THRESHOLD * PINCH_THRESHOLD

\* Mutant of ZoomLatch: the latch is armed by the distance alone.
ZoomLatchByProximity(active, dist2, hand1Open, hand2Open) ==
    IF ~active
    THEN dist2 < ZOOM_ACTIVATION_THRESHOLD * ZOOM_ACTIVATION_THRESHOLD
    ELSE ~(hand1Open /\ hand2Open)

\* The activation logic of a two-hand frame: the latch after the frame.
ZoomLatch(active, dist2, hand1Open, hand2Open) ==
    LET bothHandsOpen == hand1Open /\ hand2Open
        bothHandsClosed == ~hand1Open /\ ~hand2Open
    IN  IF ~active
        THEN dist2 < ZOOM_ACTIVATION_THRESHOLD * ZOOM_ACTIVATION_THRESHOLD
               /\ bothHandsClosed
        ELSE ~bothHandsOpen

\* Mutant of HandsLostLatch: a one-hand frame keeps the latch.
HandsLostLatchKept(active) == active

\* "Reset Zoom state if hands lost": the latch after a frame that has hands
\* but not exactly two.
HandsLostLatch(active) == FALSE

\* Mutant of NoHandsLatch: a frame without hands keeps the latch.
NoHandsLatchKept(active) == active

\* The latch after a frame without hands.
NoHandsLatch(active) == FALSE

\* isZoomActiveRef.current after predictWebcam has processed result f.
LatchAfter(f, active) ==
    IF Len(f) > 0
    THEN IF Len(f) = 2
         THEN ZoomLatch(active, WristDist2(f),
                        IsHandOpen(Landmarks(f[1])), IsHandOpen(Landmarks(f[2])))
         ELSE HandsLostLatch(active)
    ELSE NoHandsLatch(active)

\* Mutant of TwoHandMode: two hands are ZOOM whatever the latch.
TwoHandModeAlwaysZoom(active) == "ZOOM"

\* The mode predictWebcam hands to updateHandState for a two-hand frame.
TwoHandMode(active) == IF active THEN "ZOOM" ELSE "IDLE"

\* The mode predictWebcam hands to updateHandState for a one-hand frame.
OneHandMode(landmarks) == IF IsPinched(landmarks) THEN "ROTATE" ELSE "IDLE"

\* The record updateHandState builds from the result and the detected mode.
UpdateHandState(f, detectedMode) ==
    IF detectedMode = "ZOOM" /\ Len(f) = 2
    THEN LET h1 == Landmarks(f[1])[0]
             h2 == Landmarks(f[2])[0]
             \* twice the midpoint (cx, cy): (0.5 - cx) * 2 is 1 - 2 cx
             cx2 == h1.x + h2.x
             cy2 == h1.y + h2.y
         IN  [pinchDistance |-> 1000,
              handDistance |-> Sqrt(Hypot2(h1.x - h2.x, h1.y - h2.y)),
              isPinched |-> FALSE,
              position |-> [x |-> 1000 - cx2, y |-> cy2 - 1000],
              isDetected |-> TRUE,
              mode |-> detectedMode]
    ELSE IF Len(f) > 0
    THEN LET lm == Landmarks(f[1])
             thumb == lm[4]
             wrist == lm[0]
             \* twice (rawX, rawY): (0.5 - rawX) * 2 is 1 - 2 rawX
             rawX2 == thumb.x + wrist.x
             rawY2 == thumb.y + wrist.y
         IN  [pinchDistance |-> Sqrt(PinchDist2(lm)),
              handDistance |-> 0,
              isPinched |-> IsPinched(lm),
              position |-> [x |-> 1000 - rawX2, y |-> rawY2 - 1000],
              isDetected |-> TRUE,
              mode |-> detectedMode]
    ELSE [pinchDistance |-> 1000, handDistance |-> 0, isPinched |-> FALSE,
          position |-> [x |-> 0, y |-> 0], isDetected |-> TRUE,
          mode |-> detectedMode]

\* Mutant of StoreHandState: the fields of the record in the cell are
\* updated one by one, and the two distances are left as they were.
StoreHandStateMerged(old, new) ==
    [old EXCEPT !.mode = new.mode, !.isDetected = new.isDetected,
                !.isPinched = new.isPinched, !.position = new.position]

\* Mutant of StoreHandState: the position is smoothed with the one in the cell.
StoreHandStateSmoothed(old, new) ==
    [new EXCEPT !.position = [x |-> (old.position.x + new.position.x) \div 2,
                              y |-> (old.position.y + new.position.y) \div 2]]

\* handStateRef.current = <record>: the cell is given the new record whole.
StoreHandState(old, new) == new

\* handStateRef.current after predictWebcam has processed result f.
HandStateAfter(f, active, old) ==
    IF Len(f) > 0
    THEN IF Len(f) = 2
         THEN StoreHandState(old, UpdateHandState(f, TwoHandMode(LatchAfter(f, active))))
         ELSE StoreHandState(old, UpdateHandState(f, OneHandMode(Landmarks(f[1]))))
    ELSE StoreHandState(old, INITIAL_HAND_STATE)

\* predictWebcam on detection result f: one detection cycle.  ctx is whether
\* canvas.getContext('2d') gives a context.  Without a landmarker or the
\* video/canvas elements it returns before anything; without a 2D context it
\* returns after the detection, the result dropped unclassified.  Either
\* return schedules no continuation, so the loop ends there.
PredictWebcam(f, ctx) ==
    IF landmarker = "null" \/ ~videoRef
    THEN /\ rafPending' = FALSE
         /\ UNCHANGED <<requestRef, classifierVars>>
    ELSE IF ~ctx
    THEN /\ rafPending' = FALSE
         /\ UNCHANGED <<requestRef, classifierVars>>
    ELSE /\ result' = f
         /\ isZoomActive' = LatchAfter(f, isZoomActive)
         /\ handState' = HandStateAfter(f, isZoomActive, handState)
         /\ requestRef' = 1
         /\ rafPending' = TRUE

----------------------------------------------------------------------------
\* HandTracker session: the effect, its async setup chain and its cleanup

FailureStatuses == {"AI_INIT_FAILED", "CAMERA_UNSUPPORTED", "PERMISSION_DENIED"}

\* The effect runs: setupMediaPipe up to its first await.
SetupMediaPipe ==
    /\ setupPc = "idle"
    /\ mounted' = TRUE
    /\ status' = "LOADING_MODEL"
    /\ setupPc' = "awaitVision"
    /\ UNCHANGED <<cameraReady, landmarker, stream, srcObject, videoRef,
                   hasGetUserMedia, requestRef, rafPending>>
    /\ UNCHANGED <<classifierVars, animatorVars, activeMode>>

\* FilesetResolver.forVisionTasks resolves.
VisionResolved ==
    /\ setupPc = "awaitVision"
    /\ setupPc' = IF mounted THEN "awaitModel" ELSE "done"
    /\ UNCHANGED <<mounted, status, cameraReady, landmarker, stream, srcObject,
                   videoRef, hasGetUserMedia, requestRef, rafPending>>
    /\ UNCHANGED <<classifierVars, animatorVars, activeMode>>

\* Mutant of SetupFailed: the failure is reported and the load tried again.
SetupFailedRetry ==
    /\ status' = "AI_INIT_FAILED"
    /\ setupPc' = "awaitVision"

\* The catch block of setupMediaPipe.
SetupFailed ==
    /\ status' = "AI_INIT_FAILED"
    /\ setupPc' = "done"

\* forVisionTasks or createFromOptions rejects.
ModelLoadRejected ==
    /\ setupPc \in {"awaitVision", "awaitModel"}
    /\ SetupFailed
    /\ UNCHANGED <<mounted, cameraReady, landmarker, stream, srcObject,
                   videoRef, hasGetUserMedia, requestRef, rafPending>>
    /\ UNCHANGED <<classifierVars, animatorVars, activeMode>>

\* startWebcam up to its await.
StartWebcam ==
    IF ~hasGetUserMedia
    THEN status' = "CAMERA_UNSUPPORTED" /\ setupPc' = "done"
    ELSE status' = "STARTING_CAMERA" /\ setupPc' = "awaitStream"

\* HandLandmarker.createFromOptions resolves: the instance is stored and
\* startWebcam is called.
ModelResolved ==
    /\ setupPc = "awaitModel"
    /\ landmarker' = "open"
    /\ StartWebcam
    /\ UNCHANGED <<mounted, cameraReady, stream, srcObject, videoRef,
                   hasGetUserMedia, requestRef, rafPending>>
    /\ UNCHANGED <<classifierVars, animatorVars, activeMode>>

\* getUserMedia resolves with a live stream.
StreamResolved ==
    /\ setupPc = "awaitStream"
    /\ stream' = "live"
    /\ IF videoRef
       THEN srcObject' = TRUE /\ setupPc' = "awaitLoaded"
       ELSE srcObject' = srcObject /\ setupPc' = "done"
    /\ UNCHANGED <<mounted, status, cameraReady, landmarker, videoRef,
                   hasGetUserMedia, requestRef, rafPending>>
    /\ UNCHANGED <<classifierVars, animatorVars, activeMode>>

\* getUserMedia rejects.
StreamRejected ==
    /\ setupPc = "awaitStream"
    /\ status' = "PERMISSION_DENIED"
    /\ setupPc' = "done"
    /\ UNCHANGED <<mounted, cameraReady, landmarker, stream, srcObject,
                   videoRef, hasGetUserMedia, requestRef, rafPending>>
    /\ UNCHANGED <<classifierVars, animatorVars, activeMode>>

\* The video's "loadeddata" listener, with the first detection cycle.
LoadedData(f, ctx) ==
    /\ setupPc = "awaitLoaded"
    /\ setupPc' = "done"
    /\ IF mounted
       THEN /\ cameraReady' = TRUE
            /\ status' = "TRACKING_READY"
            /\ PredictWebcam(f, ctx)
       ELSE UNCHANGED <<cameraReady, status, requestRef, rafPending,
                        classifierVars>>
    /\ UNCHANGED <<mounted, landmarker, stream, srcObject, videoRef,
                   hasGetUserMedia>>
    /\ UNCHANGED <<animatorVars, activeMode>>

\* The scheduled requestAnimationFrame callback runs predictWebcam.
AnimationFrame(f, ctx) ==
    /\ rafPending
    /\ PredictWebcam(f, ctx)
    /\ UNCHANGED <<mounted, setupPc, status, cameraReady, landmarker, stream,
                   srcObject, videoRef, hasGetUserMedia>>
    /\ UNCHANGED <<animatorVars, activeMode>>

\* The effect cleanup.  `attached` is whether videoRef.current still holds the
\* element when the cleanup runs: React clears the ref of an element it
\* removes before it runs effect cleanups, and leaves it when it only
\* re-runs the effect.
Cleanup(attached) ==
    /\ mounted
    /\ mounted' = FALSE
    /\ videoRef' = attached
    /\ rafPending' = IF requestRef # 0 THEN FALSE ELSE rafPending
    /\ stream' = IF attached /\ srcObject /\ stream = "live" THEN "stopped" ELSE stream
    /\ landmarker' = IF landmarker = "null" THEN "null" ELSE "closed"
    /\ UNCHANGED <<setupPc, status, cameraReady, srcObject, hasGetUserMedia,
                   requestRef>>
    /\ UNCHANGED <<classifierVars, animatorVars, activeMode>>

----------------------------------------------------------------------------
\* Scene animator (SceneContent useFrame)

\* Mutant of Lerp: the factor is inverted (10 for 0.1).
LerpInverted(x, y, den) == x + (y - x) * den

\* THREE.MathUtils.lerp(x, y, 1/den)
Lerp(x, y, den) == x + (y - x) \div den

\* Mutant of NormalizedDist: no upper clamp.
NormalizedDistUnclamped(handDistance) == Max(0, (handDistance - 200) * 2)

\* Math.max(0, Math.min(1, (hand.handDistance - 0.2) * 2)), in thousandths.
NormalizedDist(handDistance) == Max(0, Min(1000, (handDistance - 200) * 2))

\* Mutant of TargetScale: the distance is mapped without the clamp to [0, 1].
TargetScaleUnclamped(handDistance) == (8000 + (handDistance - 200) * 2 * 32) * Fine

\* 0.8 + normalizedDist * 3.2
TargetScale(handDistance) == (8000 + NormalizedDist(handDistance) * 32) * Fine

\* Mutant of TargetRotX: the tilt follows position.x.
TargetRotXFromX(position) == position.x * 25 * Fine

\* hand.position.y * 2.5 and hand.position.x * 2.5
TargetRotX(position) == position.y * 25 * Fine
TargetRotY(position) == position.x * 25 * Fine

\* Mutant of ScaleAfter: the scale follows handDistance in every frame.
ScaleAfterUnguarded(hand, scale) ==
    Lerp(scale, (8000 + Max(0, Min(1000, (hand.handDistance - 200) * 2)) * 32) * Fine,
         LerpDen)

\* currentScale.current after a frame that read `hand`.
ScaleAfter(hand, scale) ==
    IF hand.isDetected /\ hand.mode = "ZOOM"
    THEN Lerp(scale, TargetScale(hand.handDistance), LerpDen)
    ELSE scale

\* currentRotation.current after a frame that read `hand`.
RotationAfter(hand, rot) ==
    IF hand.isDetected /\ hand.mode = "ROTATE"
    THEN [x |-> Lerp(rot.x, TargetRotX(hand.position), LerpDen),
          y |-> Lerp(rot.y, TargetRotY(hand.position), LerpDen)]
    ELSE rot

\* groupRef.current.rotation after the frame: the idle drift without a hand
\* (yaw is the yaw step delta * 0.05, wobble is sin(time * 0.1) * 0.05), the
\* smoothed rotation when rotating, the tilt easing back to 0 otherwise.
GroupRotationAfter(hand, group, rot, yaw, wobble) ==
    IF ~hand.isDetected
    THEN [x |-> wobble * Fine, y |-> group.y + yaw * Fine]
    ELSE IF hand.mode = "ROTATE"
    THEN [x |-> rot.x, y |-> rot.y]
    ELSE [x |-> Lerp(group.x, 0, TiltLerpDen), y |-> group.y]

\* delta * 0.05 for the frame times drawn, and sin(time * 0.1) * 0.05 for the
\* elapsed times drawn, in ten-thousandths.
YawSteps == {10}
Wobbles == {-300, 400}

\* One rendered frame.  The decorative meshes (grid, atmosphere, rings,
\* particles) turn with the clock alone and are left out.
UseFrame(yaw, wobble) ==
    /\ frames < MaxFrames
    /\ frames' = frames + 1
    /\ currentScale' = ScaleAfter(handState, currentScale)
    /\ currentRotation' = RotationAfter(handState, currentRotation)
    /\ groupScale' = currentScale'
    /\ groupRotation' = GroupRotationAfter(handState, groupRotation,
                                           currentRotation', yaw, wobble)
    /\ UNCHANGED <<sessionVars, classifierVars, activeMode>>

----------------------------------------------------------------------------
\* UI overlay: the 100 ms poll of handStateRef.current.mode

PollMode ==
    /\ activeMode' = handState.mode
    /\ UNCHANGED <<sessionVars, classifierVars, animatorVars>>

----------------------------------------------------------------------------
Init ==
    /\ mounted = FALSE
    /\ setupPc = "idle"
    /\ status = "INITIALIZING"
    /\ cameraReady = FALSE
    /\ landmarker = "null"
    /\ stream = "none"
    /\ srcObject = FALSE
    /\ videoRef = TRUE
    /\ hasGetUserMedia \in BOOLEAN
    /\ requestRef = 0
    /\ rafPending = FALSE
    /\ isZoomActive = FALSE
    /\ handState = INITIAL_HAND_STATE
    /\ result = << >>
    /\ currentScale = 15000 * Fine
    /\ currentRotation = [x |-> 0, y |-> 0]
    /\ groupScale = 10000 * Fine
    /\ groupRotation = [x |-> 0, y |-> 0]
    /\ frames = 0
    /\ activeMode = "IDLE"

Next ==
    \/ SetupMediaPipe
    \/ VisionResolved
    \/ ModelLoadRejected
    \/ ModelResolved
    \/ StreamResolved
    \/ StreamRejected
    \/ \E f \in Frames, ctx \in BOOLEAN : LoadedData(f, ctx)
    \/ \E f \in Frames, ctx \in BOOLEAN : AnimationFrame(f, ctx)
    \/ \E attached \in BOOLEAN : Cleanup(attached)
    \/ \E yaw \in YawSteps, wobble \in Wobbles : UseFrame(yaw, wobble)
    \/ PollMode

Spec == Init /\ [][Next]_vars

----------------------------------------------------------------------------
\* A session well under way.  currentScale moves a tenth of the way to its
\* target per frame, so from 1.5 it takes some thirty ZOOM frames to come
\* near an end of the range, more than MaxFrames allows to play out from Init.
\* ScaleSpec starts in the tracking state the session has then: the loop
\* running, two hands held in ZOOM, and the smoothed scale at a value it has
\* after that many frames (3.9: thirty frames toward 4.0 give 3.894, one more
\* toward 3.954, handDistance 0.693, gives 3.9; 0.85 likewise from above).

ScaleStarts == {8500, 39000}

\* Two-hand results that keep an armed latch.
ZoomFrames == {f \in TwoHandFrames : LatchAfter(f, TRUE)}

ScaleInit ==
    /\ mounted = TRUE
    /\ setupPc = "done"
    /\ status = "TRACKING_READY"
    /\ cameraReady = TRUE
    /\ landmarker = "open"
    /\ stream = "live"
    /\ srcObject = TRUE
    /\ videoRef = TRUE
    /\ hasGetUserMedia = TRUE
    /\ requestRef = 1
    /\ rafPending = TRUE
    /\ isZoomActive = TRUE
    /\ result \in ZoomFrames
    /\ handState = HandStateAfter(result, TRUE, INITIAL_HAND_STATE)
    /\ currentScale \in {v * Fine : v \in ScaleStarts}
    /\ currentRotation = [x |-> 0, y |-> 0]
    /\ groupScale = currentScale
    /\ groupRotation = [x |-> 0, y |-> 0]
    /\ frames = 0
    /\ activeMode = "ZOOM"

\* The detection loop and the animator, interleaved.
ScaleNext ==
    \/ \E f \in Frames, ctx \in BOOLEAN : AnimationFrame(f, ctx)
    \/ \E yaw \in YawSteps, wobble \in Wobbles : UseFrame(yaw, wobble)

ScaleSpec == ScaleInit /\ [][ScaleNext]_vars

----------------------------------------------------------------------------
\* Steps and cases the properties speak of

\* This step is a completed detection cycle on the result result': a run of
\* predictWebcam past both of its early returns.
DetectionCycle ==
    /\ landmarker # "null" /\ videoRef
    /\ (AnimationFrame(result', TRUE) \/ (mounted /\ LoadedData(result', TRUE)))

\* This step is a rendered frame of the animator.
AnimatorFrame == frames' = frames + 1

\* The teardown has run.
TornDown == ~mounted /\ setupPc # "idle"

\* Both hands of a two-hand result are open / are not open.
BothOpen(f) == IsHandOpen(Landmarks(f[1])) /\ IsHandOpen(Landmarks(f[2]))
BothNotOpen(f) == ~IsHandOpen(Landmarks(f[1])) /\ ~IsHandOpen(Landmarks(f[2]))

\* The inter-wrist 2D distance of a two-hand result is below 0.2.
WristsNear(f) ==
    LET a == Landmarks(f[1])[0]
        b == Landmarks(f[2])[0]
    IN  (a.x - b.x) * (a.x - b.x) + (a.y - b.y) * (a.y - b.y) < 200 * 200

\* The square of the 3D thumb-tip to index-tip distance of the first hand.
ThumbIndex2(f) ==
    LET t == Landmarks(f[1])[4]
        i == Landmarks(f[1])[8]
    IN  (t.x - i.x) * (t.x - i.x) + (t.y - i.y) * (t.y - i.y)
          + (t.z - i.z) * (t.z - i.z)

Clamp(v, lo, hi) == IF v < lo THEN lo ELSE IF v > hi THEN hi ELSE v

----------------------------------------------------------------------------
\* C1: in a two-hand frame, a latch that is off turns on iff the wrists are
\* closer than 0.2 and both hands are not open; a latch that is on turns off
\* iff both hands are open.  So the distance alone neither arms the latch
\* (without both hands closed it stays off) nor disarms it.
C1_LatchTransition ==
    [][DetectionCycle /\ Len(result') = 2 =>
         /\ ~isZoomActive =>
              (isZoomActive' <=> (WristsNear(result') /\ BothNotOpen(result')))
         /\ isZoomActive => (~isZoomActive' <=> BothOpen(result'))
         /\ ~isZoomActive /\ ~BothNotOpen(result') => ~isZoomActive'
         /\ isZoomActive /\ ~BothOpen(result') => isZoomActive']_vars

\* The latch is on after a two-hand frame with the wrists apart and one hand
\* open: it was armed earlier and this frame has kept it.
C1_Witness ==
    /\ isZoomActive
    /\ Len(result) = 2
    /\ ~WristsNear(result)
    /\ ~BothNotOpen(result) /\ ~BothOpen(result)

\* C2: after the teardown nothing is live: no detection continuation is
\* scheduled, no acquired camera track is live, no created model is open.
C2_TeardownLeavesNothingLive ==
    TornDown => (~rafPending /\ stream # "live" /\ landmarker # "open")

\* C3: a one-hand frame leaves the latch off and never emits ZOOM; a two-hand
\* frame after a one-hand frame emits ZOOM only if it arms the latch itself.
C3_OneHandClearsLatch ==
    [][DetectionCycle =>
         /\ Len(result') = 1 => (~isZoomActive' /\ handState'.mode # "ZOOM")
         /\ Len(result) = 1 /\ Len(result') = 2 /\ handState'.mode = "ZOOM"
              => (WristsNear(result') /\ BothNotOpen(result'))]_vars

\* A one-hand frame has been processed after the UI saw ZOOM: the latch is off
\* and the mode is ROTATE.
C3_Witness ==
    /\ Len(result) = 1
    /\ activeMode = "ZOOM"
    /\ ~isZoomActive
    /\ handState.mode = "ROTATE"

\* C4: after a frame without hands the latch is off and the shared record is
\* the neutral defaults.
C4_NoHandsResets ==
    (cameraReady /\ Len(result) = 0) =>
        /\ ~isZoomActive
        /\ handState = [pinchDistance |-> 1000, handDistance |-> 0,
                        isPinched |-> FALSE, position |-> [x |-> 0, y |-> 0],
                        isDetected |-> FALSE, mode |-> "IDLE"]

\* A frame without hands has been processed after the UI saw ZOOM.
C4_Witness == cameraReady /\ Len(result) = 0 /\ activeMode = "ZOOM"

\* C5: the shared record has mode ZOOM iff the latch is on; after a two-hand
\* frame with the latch on it is ZOOM with the inter-wrist distance as
\* handDistance, with the latch off it is IDLE and detected.
C5_ZoomIffLatch ==
    /\ handState.mode = "ZOOM" <=> isZoomActive
    /\ Len(result) = 2 =>
         IF isZoomActive
         THEN /\ handState.mode = "ZOOM"
              /\ handState.handDistance * handState.handDistance
                   <= WristDist2(result)
              /\ WristDist2(result)
                   < (handState.handDistance + 1) * (handState.handDistance + 1)
         ELSE handState.mode = "IDLE" /\ handState.isDetected

\* A two-hand frame with the latch on and the wrists 0.5 apart.
C5_Witness ==
    /\ Len(result) = 2
    /\ isZoomActive
    /\ handState.handDistance = 500

\* C6: after a one-hand frame isPinched is true iff the 3D thumb-index
\* distance is below 0.05, and the mode is ROTATE when pinched, else IDLE.
C6_PinchThreshold ==
    Len(result) = 1 =>
        /\ handState.isPinched <=> ThumbIndex2(result) < 50 * 50
        /\ handState.mode = IF handState.isPinched THEN "ROTATE" ELSE "IDLE"

\* A one-hand frame with the thumb and index exactly 0.05 apart: not pinched.
C6_Witness ==
    /\ Len(result) = 1
    /\ ThumbIndex2(result) = 50 * 50
    /\ ~handState.isPinched
    /\ handState.mode = "IDLE"

\* C7: once a failure status is reported, the status and the setup stand
\* still: no step is run again, the camera is never reported ready and no
\* detection cycle is ever scheduled or run.
C7_FailureTerminal ==
    [][/\ status' \in FailureStatuses =>
            (setupPc' = "done" /\ ~cameraReady' /\ ~rafPending'
               /\ requestRef' = 0 /\ result' = << >> /\ stream' = "none")
       /\ status \in FailureStatuses =>
            (status' = status /\ setupPc' = setupPc
               /\ landmarker' \in {landmarker, "closed"})]_vars

\* The camera permission was denied, and the session was torn down later.
C7_Witness == status = "PERMISSION_DENIED" /\ TornDown

\* C8: the record a reader finds in the shared cell is the initial defaults
\* or the record of the last detection cycle alone, every field of it.
C8_WholeRecords ==
    \/ handState = INITIAL_HAND_STATE
    \/ /\ Len(result) > 0
       /\ handState = UpdateHandState(result,
                         IF Len(result) = 2 THEN TwoHandMode(isZoomActive)
                         ELSE OneHandMode(Landmarks(result[1])))

\* Both readers have run, and the writer has replaced the record since the UI
\* read it.
C8_Witness ==
    /\ frames > 0
    /\ activeMode = "ZOOM"
    /\ handState.mode = "ROTATE"

\* C9 as stated: in a ZOOM frame the target scale is the linear map of
\* handDistance from [0.2, 0.8] onto [0.8, 4.0], clamped: 0.8 + 3.2 * c / 0.6
\* with c the clamp of handDistance - 0.2 into [0, 0.6].  (The target is
\* currentScale + 10 * the step taken; the slope 32000 / 600 is not whole, so
\* the equation is taken times 3: 24000 + 160 c.)
C9_Original ==
    [][AnimatorFrame /\ handState.isDetected /\ handState.mode = "ZOOM" =>
         3 * (currentScale + 10 * (currentScale' - currentScale))
           = (24000 + 160 * Clamp(handState.handDistance - 200, 0, 600)) * Fine]_vars

\* C9 amended: the target scale is the linear map of handDistance from
\* [0.2, 0.7] onto [0.8, 4.0], clamped: 0.8 up to 0.2, 4.0 from 0.7 on.
C9_TargetScale ==
    [][AnimatorFrame /\ handState.isDetected /\ handState.mode = "ZOOM" =>
         LET target == currentScale + 10 * (currentScale' - currentScale)
             hd == handState.handDistance
         IN  /\ target = (8000 + 64 * Clamp(hd - 200, 0, 500)) * Fine
             /\ hd <= 200 => target = 8000 * Fine
             /\ hd >= 700 => target = 40000 * Fine]_vars

\* The first ZOOM frame of the animator read handDistance 0.5: the scale has
\* moved from 1.5 a tenth of the way to 2.72.
C9_Witness ==
    /\ handState.mode = "ZOOM"
    /\ handState.handDistance = 500
    /\ currentScale = 16220 * Fine

\* C10 as stated: in a ROTATE frame the target rotation is
\* (position.x * 2.5, position.y * 2.5), approached by a tenth.
C10_Original ==
    [][AnimatorFrame /\ handState.isDetected /\ handState.mode = "ROTATE" =>
         /\ 10 * (currentRotation'.x - currentRotation.x)
              = handState.position.x * 25 * Fine - currentRotation.x
         /\ 10 * (currentRotation'.y - currentRotation.y)
              = handState.position.y * 25 * Fine - currentRotation.y]_vars

\* C10 amended: the target rotation is (position.y * 2.5, position.x * 2.5),
\* approached by a tenth, and the object takes the smoothed rotation.
C10_TargetRotation ==
    [][AnimatorFrame /\ handState.isDetected /\ handState.mode = "ROTATE" =>
         /\ 10 * (currentRotation'.x - currentRotation.x)
              = handState.position.y * 25 * Fine - currentRotation.x
         /\ 10 * (currentRotation'.y - currentRotation.y)
              = handState.position.x * 25 * Fine - currentRotation.y
         /\ groupRotation' = currentRotation']_vars

\* A ROTATE frame of the animator has read a position with x # y.
C10_Witness ==
    /\ handState.mode = "ROTATE"
    /\ handState.position.x # handState.position.y
    /\ 10 * currentRotation.x = handState.position.y * 25 * Fine
    /\ 10 * currentRotation.y = handState.position.x * 25 * Fine

\* C11: a one-hand result fed again right after itself leaves the shared
\* record and the latch as the first feed left them.
C11_OneHandIdempotent ==
    [][DetectionCycle /\ Len(result') = 1 /\ result' = result =>
         (handState' = handState /\ isZoomActive' = isZoomActive)]_vars

\* A one-hand result has been fed after the UI saw ZOOM, with a position other
\* than the one the zoom left, and the loop stands ready to feed it again.
C11_Witness ==
    /\ Len(result) = 1
    /\ rafPending
    /\ activeMode = "ZOOM"
    /\ handState.isDetected
    /\ handState.position # [x |-> 0, y |-> 0]

\* C12: a frame that reads isDetected = false applies the idle drift alone:
\* the yaw advances by the yaw step, the pitch is the wobble, and the smoothed
\* scale and the smoothed hand rotation stay as they were.
C12_IdleFrame ==
    [][AnimatorFrame /\ ~handState.isDetected =>
         /\ currentScale' = currentScale
         /\ currentRotation' = currentRotation
         /\ groupScale' = currentScale
         /\ \E yaw \in YawSteps : groupRotation'.y = groupRotation.y + yaw * Fine
         /\ \E wobble \in Wobbles : groupRotation'.x = wobble * Fine]_vars

\* An idle frame has run after a ZOOM frame had moved the scale: the object
\* has the wobble and one yaw step, and the moved scale is kept.
C12_Witness ==
    /\ ~handState.isDetected
    /\ groupRotation = [x |-> 400 * Fine, y |-> 10 * Fine]
    /\ currentScale # 15000 * Fine
    /\ groupScale = currentScale

\* C13: the smoothed scale stays within [0.8, 4.0], from the scales near
\* both ends of the range too, whatever handDistance the detection cycles
\* produce (0.101 and 0.9 among them, which only the clamp keeps in range).
C13_ScaleInRange ==
    8000 * Fine <= currentScale /\ currentScale <= 40000 * Fine

\* A ZOOM frame has read handDistance 0.9 at scale 3.9 and moved the scale a
\* tenth of the way to 4.0.
C13_Witness ==
    /\ handState.mode = "ZOOM"
    /\ handState.handDistance = 900
    /\ frames = 1
    /\ currentScale = 39100 * Fine

====
